---- MODULE Spec2Model ----
(***************************************************************************)
(* A model of ape's plugin metadata utilities (src/ape/plugins/_utils.py): *)
(* the classification of package ids into the core / available /           *)
(* installed / third-party groups, and the PluginMetadata operations that  *)
(* build package-manager invocations.                                      *)
(*                                                                         *)
(* Python strings are TLA+ strings; an Optional[str] is the empty tuple    *)
(* (None) or a one-element tuple holding the string; a Python list is a    *)
(* sequence.                                                               *)
(***************************************************************************)
EXTENDS Integers, Sequences, FiniteSets, TLC

\* ------------------------------------------------------------------ bounds

\* The longest `packages` iterable handed to from_package_names.
MaxPackages == 2

\* The longest `extra_args` iterable handed to prepare_package_manager_args.
MaxExtraArgs == 2

\* ------------------------------------------------- Python str, as operators

None == << >>

Some(s) == << s >>

\* Python truthiness of an Optional[str]: neither None nor "".
Truthy(o) == o # None /\ o[1] # ""

Min(S) == CHOOSE x \in S : \A y \in S : x <= y

\* s.startswith(p)
StartsWith(s, p) == Len(p) <= Len(s) /\ SubSeq(s, 1, Len(p)) = p

\* The 1-based indices at which `sub` occurs in `s`.
Occurrences(s, sub) ==
    { i \in 1..(Len(s) - Len(sub) + 1) : SubSeq(s, i, i + Len(sub) - 1) = sub }

\* sub in s
Contains(s, sub) == Occurrences(s, sub) # {}

\* s.index(sub), 1-based (0 when absent)
Index(s, sub) == IF Contains(s, sub) THEN Min(Occurrences(s, sub)) ELSE 0

\* s.replace(old, new): every non-overlapping occurrence, left to right.
RECURSIVE Replace(_, _, _)
Replace(s, old, new) ==
    LET i == Index(s, old)
    IN  IF i = 0
        THEN s
        ELSE SubSeq(s, 1, i - 1) \o new
                \o Replace(SubSeq(s, i + Len(old), Len(s)), old, new)

\* s.split(sep)
RECURSIVE Split(_, _)
Split(s, sep) ==
    LET i == Index(s, sep)
    IN  IF i = 0
        THEN << s >>
        ELSE << SubSeq(s, 1, i - 1) >>
                \o Split(SubSeq(s, i + Len(sep), Len(s)), sep)

\* sep.join(parts)
RECURSIVE Join(_, _)
Join(parts, sep) ==
    IF parts = << >> THEN ""
    ELSE IF Len(parts) = 1 THEN parts[1]
    ELSE parts[1] \o sep \o Join(Tail(parts), sep)

\* s.lstrip(ch) / s.rstrip(ch) / s.strip() for the one-character set {ch}
RECURSIVE LStrip(_, _)
LStrip(s, ch) ==
    IF StartsWith(s, ch) THEN LStrip(SubSeq(s, 2, Len(s)), ch) ELSE s

RECURSIVE RStrip(_, _)
RStrip(s, ch) ==
    IF Len(s) > 0 /\ SubSeq(s, Len(s), Len(s)) = ch
    THEN RStrip(SubSeq(s, 1, Len(s) - 1), ch)
    ELSE s

Strip(s) == RStrip(LStrip(s, " "), " ")

Digits == << "0", "1", "2", "3", "4", "5", "6", "7", "8", "9" >>

IsDigit(c) == \E d \in 1..10 : Digits[d] = c

DigitValue(c) == (CHOOSE d \in 1..10 : Digits[d] = c) - 1

\* str(n) for n >= 0
RECURSIVE IntToStr(_)
IntToStr(n) ==
    IF n < 10 THEN Digits[n + 1] ELSE IntToStr(n \div 10) \o Digits[(n % 10) + 1]

\* int(s) for a string of decimal digits
RECURSIVE StrToInt(_)
StrToInt(s) ==
    IF Len(s) = 0 THEN 0
    ELSE 10 * StrToInt(SubSeq(s, 1, Len(s) - 1))
            + DigitValue(SubSeq(s, Len(s), Len(s)))

\* [x for x in parts if x]
RECURSIVE NonEmpty(_)
NonEmpty(parts) ==
    IF parts = << >> THEN << >>
    ELSE IF parts[1] = "" THEN NonEmpty(Tail(parts))
    ELSE << parts[1] >> \o NonEmpty(Tail(parts))

\* The members of a list
Range(seq) == { seq[i] : i \in 1..Len(seq) }

\* ------------------------------------------------------ program constants

\* PIP_COMMAND when `which("uv")` finds uv, and when it does not
\* (sys.executable stands as "python").
PIP_COMMAND_UV == << "uv", "pip" >>

PIP_COMMAND_PY == << "python", "-m", "pip" >>

CORE_PLUGINS ==
    << "ape_accounts", "ape_cache", "ape_compile", "ape_console",
       "ape_ethereum", "ape_node", "ape_init", "ape_networks",
       "ape_plugins", "ape_pm", "ape_run", "ape_test" >>

TRUSTED_PLUGINS ==
    << "addressbook", "alchemy", "arbitrum", "avalanche", "aws", "base",
       "blast", "blockscout", "bsc", "cairo", "chainstack", "ens",
       "etherscan", "fantom", "farcaster", "flashbots", "foundry", "frame",
       "ganache", "hardhat", "infura", "ledger", "notebook", "optimism",
       "polygon", "polygon-zkevm", "safe", "solidity", "template",
       "tenderly", "titanoboa", "tokens", "trezor", "vyper" >>

\* ------------------------------------------------------------------- state

VARIABLES
    dists,            \* _get_distributions(): the set of [name, version]
                      \* distributions of the Python environment
    registry,         \* github_client.available_plugins: module names
    ape_version_str,  \* ape.version.version
    PIP_COMMAND,      \* the module-level PIP_COMMAND
    \* -- one run of PluginMetadataList.from_package_names
    pc,               \* "idle" | "loop" | "done" | "raised"
    packages,         \* the `packages` argument, as a list
    include_available,
    trusted_list,     \* Optional list
    idx,              \* how many package ids the loop has consumed
    core,             \* core.plugins: key -> PluginMetadata
    available,        \* available.plugins
    installed,        \* installed.plugins
    third_party,      \* third_party.plugins
    errors,           \* names given to logger.error, in order
    \* -- one PluginMetadata object and the last call made on it
    plugin,           \* [name, version, pip_command], or NoPlugin
    call              \* the last call: its operation, arguments and outcome

env_vars == << dists, registry, ape_version_str, PIP_COMMAND >>

list_vars ==
    << pc, packages, include_available, trusted_list, idx,
       core, available, installed, third_party, errors >>

plugin_vars == << plugin, call >>

vars == << env_vars, list_vars, plugin_vars >>

\* ---------------------------------------------------------- free functions

clean_plugin_name(name) == Replace(Replace(name, "_", "-"), "ape-", "")

\* The names of the distributions that are ape plugins.
_filter_plugins_from_dists(ds) ==
    { d.name : d \in { e \in ds : StartsWith(e.name, "ape-") } }

get_plugin_dists == _filter_plugins_from_dists(dists)

\* ape.utils.misc.get_package_version: the installed version, or None.
get_package_version(package_name) ==
    IF \E d \in dists : d.name = package_name
    THEN Some((CHOOSE d \in dists : d.name = package_name).version)
    ELSE None

_get_available_plugins == registry

\* _split_name_and_version(value) -> <<name, Optional version>>
_split_name_and_version(value) ==
    IF Contains(value, "@")
    THEN LET parts == NonEmpty(Split(value, "@"))
         IN  << parts[1], Some(Join(Tail(parts), "@")) >>
    ELSE LET chars == { c \in {"=", "<", ">"} : Contains(value, c) }
         IN  IF chars = {}
             THEN << value, None >>
             ELSE LET index == Min({ Index(value, c) : c \in chars })
                  IN  << SubSeq(value, 1, index - 1),
                         Some(SubSeq(value, index, Len(value))) >>

\* ------------------------------------- packaging.version / .specifiers

\* The length of the run of decimal digits `s` starts with.
RECURSIVE LeadingDigits(_)
LeadingDigits(s) ==
    IF Len(s) > 0 /\ IsDigit(SubSeq(s, 1, 1))
    THEN 1 + LeadingDigits(SubSeq(s, 2, Len(s)))
    ELSE 0

\* Version(s).release: the dot-separated numbers `s` starts with; what
\* follows them (a pre-, post-, dev- or local segment) is not part of it.
RECURSIVE Release(_)
Release(s) ==
    LET n == LeadingDigits(s)
    IN  IF n = 0
        THEN << >>
        ELSE << StrToInt(SubSeq(s, 1, n)) >>
                \o (IF n < Len(s) /\ SubSeq(s, n + 1, n + 1) = "."
                    THEN Release(SubSeq(s, n + 2, Len(s)))
                    ELSE << >>)

\* Version(s).major and Version(s).minor
VersionMajor(s) == IF Len(Release(s)) >= 1 THEN Release(s)[1] ELSE 0

VersionMinor(s) == IF Len(Release(s)) >= 2 THEN Release(s)[2] ELSE 0

\* The operators of a version specifier, the longer ones first.
SpecifierOperators == << "===", "~=", "==", "!=", "<=", ">=", "<", ">" >>

\* Specifier(s): its operator and its version.
Specifier(s) ==
    LET t  == Strip(s)
        k  == Min({ i \in 1..Len(SpecifierOperators) :
                      StartsWith(t, SpecifierOperators[i]) })
        op == SpecifierOperators[k]
    IN  [operator |-> op, version |-> Strip(SubSeq(t, Len(op) + 1, Len(t)))]

\* SpecifierSet(s): the specifiers between the commas of `s`.
SpecifierSet(s) ==
    LET parts == Split(s, ",")
    IN  { Specifier(parts[i]) : i \in { j \in 1..Len(parts) : Strip(parts[j]) # "" } }

\* -------------------------------------------------------------- ApeVersion

ApeVersion_version == RStrip(Split(ape_version_str, "dev")[1], ".")

ApeVersion_major == VersionMajor(ApeVersion_version)

ApeVersion_minor == VersionMinor(ApeVersion_version)

ApeVersion_is_pre_one == ApeVersion_major = 0

ApeVersion_version_range ==
    IF ApeVersion_major = 0
    THEN ">=0." \o IntToStr(ApeVersion_minor)
            \o ",<0." \o IntToStr(ApeVersion_minor + 1)
    ELSE ">=" \o IntToStr(ApeVersion_major)
            \o ",<" \o IntToStr(ApeVersion_major + 1)

would_get_downgraded(plugin_version_str) ==
    \E spec \in SpecifierSet(plugin_version_str) :
        /\ spec.operator \in {"==", "<", "<="}
        /\ \/ (ApeVersion_is_pre_one /\ VersionMajor(spec.version) < ApeVersion_major)
           \/ (ApeVersion_is_pre_one /\ VersionMinor(spec.version) < ApeVersion_minor)

\* ---------------------------------------------------------- PluginMetadata

NoPlugin == [name |-> "", version |-> None, pip_command |-> << >>]

\* urlparse(url).path: what follows the scheme and the network location, up
\* to the parameters, query or fragment.
UrlPath(url) ==
    LET afterScheme == IF Contains(url, "://")
                       THEN SubSeq(url, Index(url, "://") + 3, Len(url))
                       ELSE url
        slash == Index(afterScheme, "/")
        rest  == IF slash = 0 THEN "" ELSE SubSeq(afterScheme, slash, Len(afterScheme))
        stops == { Index(rest, c) : c \in { d \in {";", "?", "#"} : Contains(rest, d) } }
    IN  IF stops = {} THEN rest ELSE SubSeq(rest, 1, Min(stops) - 1)

\* The plugin name validate_name reads out of a "git+..." name.
git_plugin_name(version) ==
    Replace(
        Split(Split(UrlPath(Replace(version, "git+", "")), ".git")[1], "/")[
            Len(Split(Split(UrlPath(Replace(version, "git+", "")), ".git")[1], "/"))],
        "ape-", "")

\* validate_name's outcome, before the name is cleaned: [raised, name, version].
Validated(raised, pair) == [raised |-> raised, name |-> pair[1], version |-> pair[2]]

\* validate_name once a "git+" name has been resolved: the check of a remote
\* version against the name, or else the version constraint found in the name.
validate_name_version(name, version) ==
    IF Truthy(version) /\ StartsWith(version[1], "git+")
    THEN IF ~ Contains(version[1], "ape-" \o name)
         THEN Validated("ValueError", << name, version >>)
         ELSE Validated("", << name, version >>)
    ELSE IF ~ Truthy(version)
              /\ \E c \in {"==", "<=", ">=", "@git+"} : Contains(name, c)
    THEN Validated("", _split_name_and_version(name))
    ELSE Validated("", << name, version >>)

validate_name_fields(name0, version0) ==
    IF StartsWith(name0, "git+")
    THEN validate_name_version(git_plugin_name(name0), Some(name0))
    ELSE validate_name_version(name0, version0)

\* The values validate_name returns for the fields `f` it settled on.
validate_name_result(f, pip_command0) ==
    [raised |-> f.raised,
     name |-> clean_plugin_name(f.name),
     version |-> f.version,
     pip_command |-> IF pip_command0 = None THEN PIP_COMMAND ELSE pip_command0[1]]

\* PluginMetadata(name=..., version=..., pip_command=...): the model
\* validator; pip_command0 is None when the keyword is not passed.
validate_name(name0, version0, pip_command0) ==
    validate_name_result(validate_name_fields(name0, version0), pip_command0)

package_name(self) == "ape-" \o self.name

module_name(self) == "ape_" \o Replace(self.name, "-", "_")

current_version(self) == get_package_version(package_name(self))

check_installed(self) == \E n \in get_plugin_dists : n = package_name(self)

is_installed(self) == check_installed(self)

in_core(self) == Strip(module_name(self)) \in Range(CORE_PLUGINS)

is_available(self) == module_name(self) \in _get_available_plugins

\* check_trusted(use_web, trusted_list); trusted_list is an Optional list.
check_trusted(self, use_web, trusted) ==
    IF use_web
    THEN is_available(self)
    ELSE LET list == IF trusted = None \/ trusted[1] = << >>
                     THEN TRUSTED_PLUGINS
                     ELSE trusted[1]
         IN  self.name \in Range(list)

is_trusted(self) == check_trusted(self, TRUE, None)

is_third_party(self) == is_installed(self) /\ ~ is_trusted(self)

can_install(self) ==
    LET requesting_different_version ==
            self.version # None /\ self.version # current_version(self)
    IN  ~ is_installed(self) \/ requesting_different_version

\* install_str: [raised, ret]
install_str(self) ==
    IF Truthy(self.version) /\ StartsWith(self.version[1], "git+")
    THEN [raised |-> "", ret |-> self.version[1]]
    ELSE IF Truthy(self.version)
    THEN LET v0 == self.version[1]
             version == IF ~ \E x \in {"=", "<", ">"} : Contains(v0, x)
                        THEN "==" \o v0
                        ELSE v0
         IN  IF would_get_downgraded(version)
             THEN [raised |-> "PluginVersionError", ret |-> ""]
             ELSE [raised |-> "", ret |-> package_name(self) \o version]
    ELSE [raised |-> "", ret |-> package_name(self) \o ApeVersion_version_range]

\* prepare_package_manager_args with one layout for both package managers:
\* "--python" and the location always go before the verb.
prepare_package_manager_args_python_first(self, verb, python_location, extra_args) ==
    IF Truthy(python_location)
    THEN self.pip_command \o << "--python", python_location[1], verb >>
             \o (IF extra_args # None THEN extra_args[1] ELSE << >>)
    ELSE self.pip_command \o << verb >>
             \o (IF extra_args # None THEN extra_args[1] ELSE << >>)

\* prepare_package_manager_args(verb, python_location, extra_args): the list
\* it returns. python_location is an Optional[str], extra_args an Optional
\* list.
prepare_package_manager_args(self, verb, python_location, extra_args) ==
    LET extra   == IF extra_args # None /\ extra_args[1] # << >>
                   THEN extra_args[1]
                   ELSE << >>
        command == self.pip_command
    IN  IF command[1] = "uv"
        THEN IF Truthy(python_location)
             THEN command \o << verb, "--python", python_location[1] >> \o extra
             ELSE command \o << verb >> \o extra
        ELSE IF Truthy(python_location)
             THEN command \o << "--python", python_location[1], verb >> \o extra
             ELSE command \o << verb >> \o extra

\* What a call of _prepare_install leaves behind. returned is "None" or
\* "dict"; keys are the keys of the dict; prompted says whether click.confirm
\* was reached; raised names the exception that ended the call instead.
PrepareResult(returned, keys, args, version_before, prompted, raised, logged) ==
    [returned |-> returned, keys |-> keys, args |-> args,
     version_before |-> version_before, prompted |-> prompted,
     raised |-> raised, logged |-> logged]

\* The install branch of _prepare_install: install_str is appended to the
\* arguments, or its PluginVersionError ends the call.
prepare_install_request(pip_arguments, istr, prompted, logged) ==
    IF istr.raised # ""
    THEN PrepareResult("", {}, << >>, None, prompted, istr.raised, logged)
    ELSE PrepareResult("dict", {"args", "result_handler"},
                       pip_arguments \o << istr.ret, "--quiet" >>,
                       None, prompted, "", logged)

\* _prepare_install past its two early returns. can and avail are
\* self.can_install and self.is_available; click.confirm is reached only
\* when the two operands before it in the `or` are false.
prepare_install_tail(self, upgrade, skip_confirmation, confirm, warned, pip_arguments, can, avail) ==
    IF upgrade
    THEN PrepareResult("dict", {"args", "version_before", "result_handler"},
                       pip_arguments
                           \o << "--upgrade",
                                 package_name(self) \o ApeVersion_version_range,
                                 "--quiet" >>,
                       current_version(self), FALSE, "", warned \o << "info" >>)
    ELSE IF can /\ (avail \/ skip_confirmation \/ confirm)
    THEN prepare_install_request(pip_arguments, install_str(self),
                                 can /\ ~ avail /\ ~ skip_confirmation,
                                 warned \o << "info" >>)
    ELSE PrepareResult("None", {}, << >>, None,
                       can /\ ~ avail /\ ~ skip_confirmation, "",
                       warned \o << "warning" >>)

\* _prepare_install without the early return for a version given together
\* with upgrade.
_prepare_install_versioned_upgrade(self, upgrade, skip_confirmation, python_location, confirm) ==
    IF in_core(self)
    THEN PrepareResult("None", {}, << >>, None, FALSE, "", << "error" >>)
    ELSE prepare_install_tail(
             self, upgrade, skip_confirmation, confirm,
             IF is_third_party(self) THEN << "warning" >> ELSE << >>,
             prepare_package_manager_args(self, "install", python_location, None),
             can_install(self), is_available(self))

\* _prepare_install(upgrade, skip_confirmation, python_location); confirm is
\* the user's answer should click.confirm be reached.
_prepare_install(self, upgrade, skip_confirmation, python_location, confirm) ==
    IF in_core(self)
    THEN PrepareResult("None", {}, << >>, None, FALSE, "", << "error" >>)
    ELSE IF self.version # None /\ upgrade
    THEN PrepareResult("None", {}, << >>, None, FALSE, "", << "error" >>)
    ELSE prepare_install_tail(
             self, upgrade, skip_confirmation, confirm,
             IF is_third_party(self) THEN << "warning" >> ELSE << >>,
             prepare_package_manager_args(self, "install", python_location, None),
             can_install(self), is_available(self))

\* _get_uninstall_args once prepare_package_manager_args has returned.
uninstall_arguments(self, arguments) ==
    (IF self.pip_command[1] # "uv" THEN arguments \o << "-y" >> ELSE arguments)
        \o << package_name(self), "--quiet" >>

\* _get_uninstall_args(python_location)
_get_uninstall_args(self, python_location) ==
    uninstall_arguments(
        self, prepare_package_manager_args(self, "uninstall", python_location, None))

\* self.pip_command once a caller has extended the list `returned` that
\* prepare_package_manager_args gave it: the method works on
\* `list(self.pip_command)`, a copy, so the field keeps its value.
pip_command_after(self, returned) == self.pip_command

\* ------------------------------------- PluginMetadataList.from_package_names

EmptyGroup == [k \in {} |-> NoPlugin]

\* group.plugins[key] = value
Put(group, key, value) ==
    [k \in (DOMAIN group) \cup {key} |-> IF k = key THEN value ELSE group[k]]

\* The key and the PluginMetadata the loop body makes of one package id.
package_key(package_id) == Split(package_id, "==")[1]

package_plugin(package_id) ==
    LET parts   == Split(package_id, "==")
        name    == parts[1]
        version == IF Len(parts) = 2 THEN Some(parts[2]) ELSE None
    IN  validate_name(Strip(name), version, None)

\* The loop body with `not is_installed` left out of the first test: a listed
\* plugin goes to the available group even when it is installed.
from_package_names_branch_listed_first(p, incl_available, trusted) ==
    IF in_core(p)
    THEN "core"
    ELSE IF incl_available /\ is_available(p)
    THEN "available"
    ELSE IF is_installed(p) /\ check_trusted(p, FALSE, trusted)
    THEN "installed"
    ELSE IF is_installed(p)
    THEN "third_party"
    ELSE "none"

\* The loop body with check_trusted left at its default use_web=True: trust is
\* read from the registry, not from the offline list.
from_package_names_branch_web_trust(p, incl_available, trusted) ==
    IF in_core(p)
    THEN "core"
    ELSE IF incl_available /\ is_available(p) /\ ~ is_installed(p)
    THEN "available"
    ELSE IF is_installed(p) /\ check_trusted(p, TRUE, trusted)
    THEN "installed"
    ELSE IF is_installed(p)
    THEN "third_party"
    ELSE "none"

\* The branch the loop body takes for `p`: the group it stores the plugin in,
\* or "none" when it only logs an error.
from_package_names_branch(p, incl_available, trusted) ==
    IF in_core(p)
    THEN "core"
    ELSE LET installed_   == is_installed(p)
             trusted_     == check_trusted(p, FALSE, trusted)
             available_   == incl_available /\ is_available(p)
         IN  IF incl_available /\ available_ /\ ~ installed_
             THEN "available"
             ELSE IF installed_ /\ ~ in_core(p) /\ trusted_
             THEN "installed"
             ELSE IF installed_
             THEN "third_party"
             ELSE "none"

\* ------------------------------------------------------------ input domains

\* Environments: what is installed, what the registry lists.
DistChoices ==
    { { [name |-> "ape-ens", version |-> "0.8.0"],
        [name |-> "requests", version |-> "2.31.0"] },
      { [name |-> "ape-foo", version |-> "0.8.1"],
        [name |-> "ape-run", version |-> "0.8.14"] },
      { [name |-> "ape-ens", version |-> "0.8.0"],
        [name |-> "ape-foo", version |-> "0.8.1"] } }

RegistryChoices == { {}, {"ape_ens", "ape_foo", "ape_tokens"} }

ApeVersionStrs == { "0.8.14", "0.9.0.dev3+g1a2b3c4", "1.2.0" }

PackageIds ==
    { "ape_run", "ape-ens", "ens==0.8.0", "ape-foo", "ape-tokens", "ape-bar",
      "tokens==git+https://github.com/ApeWorX/ape-ens" }

TrustedLists == { None, Some(<< >>), Some(<< "foo", "tokens" >>) }

SeqsUpTo(S, n) == UNION { [1..k -> S] : k \in 0..n }

EnvInit(ds, rs, vs, cmds) ==
    /\ dists \in ds
    /\ registry \in rs
    /\ ape_version_str \in vs
    /\ PIP_COMMAND \in cmds

NoCall ==
    [op |-> "", upgrade |-> FALSE, skip_confirmation |-> FALSE,
     python_location |-> None, confirm |-> FALSE, verb |-> "",
     extra_args |-> None, raised |-> "", ret_bool |-> FALSE, ret_str |-> "",
     ret_list |-> << >>,
     prepared |-> PrepareResult("", {}, << >>, None, FALSE, "", << >>),
     pip_command_before |-> << >>]

ListIdle ==
    /\ pc = "idle"
    /\ packages = << >>
    /\ include_available = FALSE
    /\ trusted_list = None
    /\ idx = 0
    /\ core = EmptyGroup
    /\ available = EmptyGroup
    /\ installed = EmptyGroup
    /\ third_party = EmptyGroup
    /\ errors = << >>

PluginIdle ==
    /\ plugin = NoPlugin
    /\ call = NoCall

\* ------------------------------------------- actions: from_package_names

\* The call: the four groups are created empty and the loop starts.
FromPackageNames ==
    /\ pc = "idle"
    /\ \E pk \in SeqsUpTo(PackageIds, MaxPackages), ia \in BOOLEAN,
          tl \in TrustedLists :
         /\ packages' = pk
         /\ include_available' = ia
         /\ trusted_list' = tl
    /\ pc' = "loop"
    /\ idx' = 0
    /\ core' = EmptyGroup
    /\ available' = EmptyGroup
    /\ installed' = EmptyGroup
    /\ third_party' = EmptyGroup
    /\ errors' = << >>
    /\ UNCHANGED << env_vars, plugin_vars >>

\* The PluginMetadata object a successful validation makes.
PluginOf(v) == [name |-> v.name, version |-> v.version, pip_command |-> v.pip_command]

\* The end of the loop body: `made` goes under `name` into the group of the
\* branch taken, or its name goes to logger.error.
StorePlugin(name, made, branch) ==
    /\ core' = IF branch = "core" THEN Put(core, name, made) ELSE core
    /\ available' =
           IF branch = "available" THEN Put(available, name, made) ELSE available
    /\ installed' =
           IF branch = "installed" THEN Put(installed, name, made) ELSE installed
    /\ third_party' =
           IF branch = "third_party" THEN Put(third_party, name, made)
           ELSE third_party
    /\ errors' = IF branch = "none" THEN Append(errors, made.name) ELSE errors

\* The loop body for the key `name` and the outcome `v` of PluginMetadata(...):
\* a ValueError of the validator ends the call.
LoopStep(name, v) ==
    IF v.raised # ""
    THEN /\ pc' = "raised"
         /\ UNCHANGED << idx, core, available, installed, third_party, errors >>
    ELSE /\ pc' = "loop"
         /\ idx' = idx + 1
         /\ StorePlugin(name, PluginOf(v),
                        from_package_names_branch(PluginOf(v), include_available,
                                                  trusted_list))

\* One iteration of `for package_id in packages`.
LoopBody ==
    /\ pc = "loop"
    /\ idx < Len(packages)
    /\ LoopStep(package_key(packages[idx + 1]), package_plugin(packages[idx + 1]))
    /\ UNCHANGED << packages, include_available, trusted_list >>
    /\ UNCHANGED << env_vars, plugin_vars >>

\* `return cls(core=core, available=available, ...)`
ReturnList ==
    /\ pc = "loop"
    /\ idx = Len(packages)
    /\ pc' = "done"
    /\ UNCHANGED << packages, include_available, trusted_list, idx,
                    core, available, installed, third_party, errors >>
    /\ UNCHANGED << env_vars, plugin_vars >>

ListInit ==
    /\ EnvInit(DistChoices, RegistryChoices, {"0.8.14"}, {PIP_COMMAND_PY})
    /\ ListIdle
    /\ PluginIdle

ListNext == FromPackageNames \/ LoopBody \/ ReturnList

ListSpec == ListInit /\ [][ListNext]_vars

\* ------------------------------------------------ actions: PluginMetadata

\* Requests to install a plugin: the name and the version keyword.
PluginRequests ==
    { << "ens", None >>,
      << "ens", Some("0.8.0") >>,
      << "ens==0.8.0", None >>,
      << "ens", Some("1.0.0") >>,
      << "ape-foo", None >>,
      << "ape-foo", Some("0.7.1") >>,
      << "ape-foo", Some(">=0.8,<0.9") >>,
      << "ape-foo", Some("<0.8") >>,
      << "ape-foo", Some("") >>,
      << "tokens", Some("<=0.9.1") >>,
      << "ape_run", None >>,
      << "ape_run", Some("0.8.14") >>,
      << "git+https://github.com/ApeWorX/ape-foo.git@main", None >>,
      << "tokens", Some("git+https://github.com/ApeWorX/ape-ens") >> }

\* Requests and explicit pip commands for the command-building calls.
ArgsRequests == { << "ens", None >>, << "ape_run", None >>, << "ape-foo", Some("0.8.1") >> }

PipCommands == { None, Some(PIP_COMMAND_UV), Some(PIP_COMMAND_PY) }

PythonLocations == { None, Some(""), Some("/venv/bin/python") }

Verbs == { "install", "uninstall" }

ExtraArgs == { "--user", "--no-deps" }

ExtraArgLists == { None } \cup { Some(x) : x \in SeqsUpTo(ExtraArgs, MaxExtraArgs) }

\* PluginMetadata(...) has run with the outcome `v`.
Constructed(v) ==
    /\ plugin' = IF v.raised # "" THEN NoPlugin ELSE PluginOf(v)
    /\ call' = [NoCall EXCEPT !.op = "PluginMetadata", !.raised = v.raised]

\* A PluginMetadata is made of an install request, with the default command.
Construct ==
    /\ plugin = NoPlugin
    /\ \E r \in PluginRequests : Constructed(validate_name(r[1], r[2], None))
    /\ UNCHANGED << env_vars, list_vars >>

\* A PluginMetadata is made with or without an explicit pip_command.
ConstructWithCommand ==
    /\ plugin = NoPlugin
    /\ \E r \in ArgsRequests, c \in PipCommands :
           Constructed(validate_name(r[1], r[2], c))
    /\ UNCHANGED << env_vars, list_vars >>

CanInstall ==
    /\ plugin # NoPlugin
    /\ call' = [NoCall EXCEPT !.op = "can_install",
                              !.ret_bool = can_install(plugin),
                              !.pip_command_before = plugin.pip_command]
    /\ UNCHANGED << plugin, env_vars, list_vars >>

InstallStr ==
    /\ plugin # NoPlugin
    /\ call' = [NoCall EXCEPT !.op = "install_str",
                              !.raised = install_str(plugin).raised,
                              !.ret_str = install_str(plugin).ret,
                              !.pip_command_before = plugin.pip_command]
    /\ UNCHANGED << plugin, env_vars, list_vars >>

\* _prepare_install has run with the outcome `res`; the CLI owns res.args.
PrepareInstalled(upgrade, skip_confirmation, python_location, confirm, res) ==
    /\ call' = [NoCall EXCEPT !.op = "_prepare_install",
                              !.upgrade = upgrade,
                              !.skip_confirmation = skip_confirmation,
                              !.python_location = python_location,
                              !.confirm = confirm,
                              !.raised = res.raised,
                              !.prepared = res,
                              !.pip_command_before = plugin.pip_command]
    /\ plugin' = [plugin EXCEPT !.pip_command = pip_command_after(plugin, res.args)]

PrepareInstall ==
    /\ plugin # NoPlugin
    /\ \E upgrade \in BOOLEAN, skip_confirmation \in BOOLEAN,
          python_location \in PythonLocations, confirm \in BOOLEAN :
           PrepareInstalled(upgrade, skip_confirmation, python_location, confirm,
                            _prepare_install(plugin, upgrade, skip_confirmation,
                                             python_location, confirm))
    /\ UNCHANGED << env_vars, list_vars >>

\* A list-returning call `op` has returned `args`.
ArgsReturned(op, verb, python_location, extra_args, args) ==
    /\ call' = [NoCall EXCEPT !.op = op,
                              !.verb = verb,
                              !.python_location = python_location,
                              !.extra_args = extra_args,
                              !.ret_list = args,
                              !.pip_command_before = plugin.pip_command]
    /\ plugin' = [plugin EXCEPT !.pip_command = pip_command_after(plugin, args)]

PreparePackageManagerArgs ==
    /\ plugin # NoPlugin
    /\ \E verb \in Verbs, python_location \in PythonLocations,
          extra_args \in ExtraArgLists :
           ArgsReturned("prepare_package_manager_args", verb, python_location,
                        extra_args,
                        prepare_package_manager_args(plugin, verb, python_location,
                                                     extra_args))
    /\ UNCHANGED << env_vars, list_vars >>

GetUninstallArgs ==
    /\ plugin # NoPlugin
    /\ \E python_location \in PythonLocations :
           ArgsReturned("_get_uninstall_args", "uninstall", python_location, None,
                        _get_uninstall_args(plugin, python_location))
    /\ UNCHANGED << env_vars, list_vars >>

\* ----------------------------------------------------------- specifications

\* Install decisions of one PluginMetadata, over environments and Ape versions.
Init ==
    /\ EnvInit(DistChoices, RegistryChoices, ApeVersionStrs, {PIP_COMMAND_PY})
    /\ ListIdle
    /\ PluginIdle

Next == Construct \/ CanInstall \/ InstallStr \/ PrepareInstall

Spec == Init /\ [][Next]_vars

\* Command building of one PluginMetadata, over both package managers.
ArgsInit ==
    /\ EnvInit({ { [name |-> "ape-ens", version |-> "0.8.0"] } }, { {"ape_ens"} },
               {"0.8.14"}, {PIP_COMMAND_UV, PIP_COMMAND_PY})
    /\ ListIdle
    /\ PluginIdle

ArgsNext ==
    \/ ConstructWithCommand
    \/ PreparePackageManagerArgs
    \/ GetUninstallArgs
    \/ PrepareInstall

ArgsSpec == ArgsInit /\ [][ArgsNext]_vars

\* ------------------------------------------------------------------ claims

GroupNames == { "core", "available", "installed", "third_party" }

Group(g) ==
    CASE g = "core" -> core
      [] g = "available" -> available
      [] g = "installed" -> installed
      [] g = "third_party" -> third_party

\* The groups that hold the key k.
GroupsHolding(k) == { g \in GroupNames : k \in DOMAIN Group(g) }

\* The decision table of C1 for the plugin p.
TableGroup(p) ==
    IF module_name(p) \in Range(CORE_PLUGINS) THEN "core"
    ELSE IF include_available /\ module_name(p) \in registry /\ ~ is_installed(p)
    THEN "available"
    ELSE IF is_installed(p) /\ check_trusted(p, FALSE, trusted_list) THEN "installed"
    ELSE IF is_installed(p) THEN "third_party"
    ELSE "none"

\* The package id at position i is stored as the table says.
StoredAsTable(k, p) ==
    /\ GroupsHolding(k) = (IF TableGroup(p) = "none" THEN {} ELSE { TableGroup(p) })
    /\ \A g \in GroupsHolding(k) : Group(g)[k].name = p.name
    /\ TableGroup(p) = "none" => p.name \in Range(errors)

\* C1: every package id from_package_names has consumed is stored in exactly
\* the group the decision table gives (core; else available when
\* include_available, listed and not installed; else installed when installed
\* and trusted offline; else third_party when installed; else no group, with
\* an error logged), and include_available=False leaves available empty.
C1_DecisionTable ==
    /\ \A i \in 1..idx :
           StoredAsTable(package_key(packages[i]), PluginOf(package_plugin(packages[i])))
    /\ ~ include_available => available = EmptyGroup

\* A finished call that filled the available and the third-party group.
C1_Witness ==
    /\ pc = "done"
    /\ Len(packages) = 2
    /\ DOMAIN available # {}
    /\ DOMAIN third_party # {}

\* C2 as stated: every plugin of the third_party group has is_third_party ==
\* True and every plugin of the installed group has is_third_party == False.
C2_AsStated ==
    /\ \A k \in DOMAIN third_party : is_third_party(third_party[k])
    /\ \A k \in DOMAIN installed : ~ is_third_party(installed[k])

\* C2, amended: the third_party group holds installed plugins the offline
\* trusted list does not name and the installed group installed plugins it
\* names; is_third_party, which asks the registry instead, is True in the
\* third_party group exactly for the plugins the registry does not list and
\* False in the installed group exactly for those it lists.
C2_GroupsFollowOfflineList ==
    /\ \A k \in DOMAIN third_party :
           /\ is_installed(third_party[k])
           /\ ~ check_trusted(third_party[k], FALSE, trusted_list)
           /\ is_third_party(third_party[k]) <=> ~ is_available(third_party[k])
    /\ \A k \in DOMAIN installed :
           /\ is_installed(installed[k])
           /\ check_trusted(installed[k], FALSE, trusted_list)
           /\ ~ is_third_party(installed[k]) <=> is_available(installed[k])

\* A finished call whose third_party group holds a plugin the registry lists.
C2_Witness ==
    /\ pc = "done"
    /\ \E k \in DOMAIN third_party : is_available(third_party[k])

\* The version a request names, without a leading "==".
RequestedVersion(p) ==
    IF StartsWith(p.version[1], "==")
    THEN SubSeq(p.version[1], 3, Len(p.version[1]))
    ELSE p.version[1]

\* The request names a version other than the installed one.
RequestsDifferentVersion(p) ==
    p.version # None /\ Some(RequestedVersion(p)) # current_version(p)

\* C3: can_install is True whenever the plugin is not installed; for an
\* installed plugin it is True only if the plugin is available and the
\* requested version differs from the installed one, so it is False when no
\* version is requested or the requested version is the installed one.
C3_CanInstall ==
    call.op = "can_install" =>
        /\ ~ is_installed(plugin) => call.ret_bool
        /\ is_installed(plugin) /\ call.ret_bool =>
               is_available(plugin) /\ RequestsDifferentVersion(plugin)
        /\ is_installed(plugin) /\ ~ RequestsDifferentVersion(plugin) =>
               ~ call.ret_bool

\* C4: _prepare_install returns None, with no arguments and no result
\* handler, and never reaches the prompt, for a core plugin and for a request
\* that gives a version together with upgrade=True.
C4_RefusesCoreAndVersionedUpgrade ==
    call.op = "_prepare_install"
        /\ (in_core(plugin) \/ (plugin.version # None /\ call.upgrade)) =>
        /\ call.prepared.returned = "None"
        /\ call.prepared.args = << >>
        /\ call.prepared.keys = {}
        /\ ~ call.prepared.prompted
        /\ call.raised = ""

\* A versioned upgrade request for a plugin that is neither core, installed
\* nor listed, made without skip_confirmation: past the early return the
\* call would prompt.
C4_Witness ==
    /\ call.op = "_prepare_install"
    /\ ~ in_core(plugin)
    /\ plugin.version # None
    /\ call.upgrade
    /\ ~ call.skip_confirmation
    /\ call.python_location # None
    /\ ~ is_installed(plugin)
    /\ ~ is_available(plugin)

\* The specifier install_str appends: the requested version, "==" put before
\* a bare one.
RequestedSpecifier(p) ==
    IF \E x \in {"=", "<", ">"} : Contains(p.version[1], x)
    THEN p.version[1]
    ELSE "==" \o p.version[1]

\* (major, minor) of version v is below the running Ape's.
BelowApe(v) ==
    \/ VersionMajor(v) < ApeVersion_major
    \/ VersionMajor(v) = ApeVersion_major /\ VersionMinor(v) < ApeVersion_minor

\* Some "==", "<" or "<=" specifier of the request forces a version below Ape's.
ForcesDowngrade(p) ==
    \E spec \in SpecifierSet(RequestedSpecifier(p)) :
        spec.operator \in {"==", "<", "<="} /\ BelowApe(spec.version)

\* C5: for a request with a version specifier, install_str raises
\* PluginVersionError exactly when some "==", "<" or "<=" specifier forces a
\* version whose (major, minor) is below the running Ape's, and returns
\* "ape-<name><specifier>" otherwise.
C5_InstallStrGuardsDowngrade ==
    call.op = "install_str" /\ Truthy(plugin.version)
        /\ ~ StartsWith(plugin.version[1], "git+") =>
        /\ call.raised = "PluginVersionError" <=> ForcesDowngrade(plugin)
        /\ call.raised = "" =>
               call.ret_str = "ape-" \o plugin.name \o RequestedSpecifier(plugin)

\* The list C6 describes: the base command, the verb, the extra arguments,
\* with "--python" and the location after the verb for uv and before it
\* otherwise.
ArgsLayout(command, verb, python_location, extra) ==
    IF ~ Truthy(python_location) THEN command \o << verb >> \o extra
    ELSE IF command[1] = "uv"
    THEN command \o << verb >> \o << "--python", python_location[1] >> \o extra
    ELSE command \o << "--python", python_location[1] >> \o << verb >> \o extra

ListOf(extra_args) == IF extra_args = None THEN << >> ELSE extra_args[1]

\* C6: prepare_package_manager_args returns the base command, the verb and
\* the extra arguments in order, with "--python" and a given (non-empty)
\* location right after the verb for uv and right before it for pip; the
\* plugin's pip_command is the same after the call as before it, so
\* _prepare_install and _get_uninstall_args build on the base command alone
\* however often they are called.
C6_ArgsLayout ==
    /\ plugin # NoPlugin => plugin.pip_command \in { PIP_COMMAND_UV, PIP_COMMAND_PY }
    /\ call.op \in { "prepare_package_manager_args", "_get_uninstall_args",
                     "_prepare_install" } =>
           plugin.pip_command = call.pip_command_before
    /\ call.op = "prepare_package_manager_args" =>
           call.ret_list = ArgsLayout(call.pip_command_before, call.verb,
                                      call.python_location, ListOf(call.extra_args))
    /\ call.op = "_get_uninstall_args" =>
           call.ret_list =
               ArgsLayout(call.pip_command_before, "uninstall",
                          call.python_location, << >>)
                   \o (IF call.pip_command_before[1] = "uv" THEN << >> ELSE << "-y" >>)
                   \o << "ape-" \o plugin.name, "--quiet" >>
    /\ call.op = "_prepare_install" /\ call.prepared.returned = "dict" =>
           /\ Len(call.prepared.args) =
                  Len(ArgsLayout(call.pip_command_before, "install",
                                 call.python_location, << >>))
                      + (IF call.upgrade THEN 3 ELSE 2)
           /\ SubSeq(call.prepared.args, 1,
                     Len(call.prepared.args) - (IF call.upgrade THEN 3 ELSE 2)) =
                  ArgsLayout(call.pip_command_before, "install",
                             call.python_location, << >>)

\* A uv call with a location and two different extra arguments.
C6_Witness ==
    /\ call.op = "prepare_package_manager_args"
    /\ plugin.pip_command[1] = "uv"
    /\ Truthy(call.python_location)
    /\ call.extra_args # None
    /\ Len(call.extra_args[1]) = 2
    /\ call.extra_args[1][1] # call.extra_args[1][2]

====
